---------------------------- MODULE Spec2Model ----------------------------
(***************************************************************************)
(* A model of the MODBUS client library: the client dispatcher of          *)
(* client.go (argument validation, request layout, the send pipeline and   *)
(* the response validation of every public operation) and the TLS          *)
(* transporter of tlsclient.go (mutex, lazy connection, idle-close timer,  *)
(* the request/response round trip over a byte stream).                    *)
(*                                                                         *)
(* Two specifications share the module: ClientSpec runs the dispatcher     *)
(* against an arbitrary Packager/Transporter pair, Spec runs concurrent    *)
(* callers of one tlsTransporter against a server and a clock; FairSpec    *)
(* is Spec with a clock that advances and timer callbacks that run.        *)
(***************************************************************************)
EXTENDS Integers, Sequences, FiniteSets, TLC

VARIABLES
    \* ---- client dispatcher (client.go) ----
    cOp,        \* name of the last public operation called ("none" at start)
    cArgs,      \* its arguments
    cReq,       \* the request PDU it built (NoPdu when validation failed)
    cRes,       \* the results it returned
    cErr,       \* the error it returned (NoError for nil)
    cTrace,     \* the calls it made on the packager and the transporter, in order
    \* ---- tlsTransporter (tlsclient.go) ----
    IdleTimeout,  \* mb.IdleTimeout, in clock ticks (<= 0 disables the idle timer)
    mu,           \* mb.mu: Free or the thread that holds it
    conn,         \* mb.conn: NoConn (nil) or the number of the dialed connection
    closeTimer,   \* mb.closeTimer: "nil" or "set", with
    timerActive,  \*   whether the timer is armed and has not fired, and
    timerLeft,    \*   the ticks until it fires
    idle,         \* time.Now() - mb.lastActivity in ticks, saturating at IdleCap
    pending,      \* closeIdle callbacks that fired and have not run yet
    pc,           \* where each thread is in its call of Send
    loc,          \* the locals of each thread's call of Send
    dials,        \* connections dialed so far
    reqCount,     \* calls of Send started so far (the number of the last request)
    srvQ,         \* requests written to the connection, not yet answered
    wire,         \* the bytes of the server's last answer that have not arrived
    rbuf,         \* response bytes that arrived and were not read
    lastRet       \* what the most recent call (Send, Connect, Close) returned

clientVars == <<cOp, cArgs, cReq, cRes, cErr, cTrace>>
transportVars == <<IdleTimeout, mu, conn, closeTimer, timerActive, timerLeft, idle,
                   pending, pc, loc, dials, reqCount, srvQ, wire, rbuf, lastRet>>
vars == <<clientVars, transportVars>>

(***************************************************************************)
(* Bytes and 16-bit words                                                  *)
(***************************************************************************)
Hi(v) == (v \div 256) % 256
Lo(v) == v % 256

\* binary.BigEndian.Uint16(data[off:]) with a 0-based offset
Uint16At(data, off) == data[off + 1] * 256 + data[off + 2]

\* data[from:] with a 0-based start
SliceFrom(data, from) == SubSeq(data, from + 1, Len(data))

\* dataBlock creates a sequence of uint16 data (each value big-endian).
dataBlock(value) ==
    [i \in 1..(2 * Len(value)) |->
        IF i % 2 = 1 THEN Hi(value[(i + 1) \div 2]) ELSE Lo(value[i \div 2])]

\* dataBlockSuffix with a length byte that stops at 255
dataBlockSuffixSaturating(suffix, value) ==
    dataBlock(value) \o <<IF Len(suffix) > 255 THEN 255 ELSE Len(suffix)>> \o suffix

\* dataBlockSuffix: the uint16 data, one byte uint8(len(suffix)), the suffix.
dataBlockSuffix(suffix, value) ==
    dataBlock(value) \o <<Len(suffix) % 256>> \o suffix

(***************************************************************************)
(* PDUs and errors                                                         *)
(***************************************************************************)
FuncCodeReadCoils                  == 1
FuncCodeReadDiscreteInputs         == 2
FuncCodeReadHoldingRegisters       == 3
FuncCodeReadInputRegisters         == 4
FuncCodeWriteSingleCoil            == 5
FuncCodeWriteSingleRegister        == 6
FuncCodeWriteMultipleCoils         == 15
FuncCodeWriteMultipleRegisters     == 16
FuncCodeWriteFileRecord            == 21
FuncCodeMaskWriteRegister          == 22
FuncCodeReadWriteMultipleRegisters == 23
FuncCodeReadFIFOQueue              == 24
FuncCodeReadDeviceIdentification   == 43

ProtocolDataUnit(fc, data) == [FunctionCode |-> fc, Data |-> data]
NoPdu == [FunctionCode |-> 0, Data |-> <<>>]

\* Errors are values: nil, a fmt.Errorf of the dispatcher, an io error of a
\* bytes.Reader, a *ModbusError, or the error a collaborator returned.
NoError == [kind |-> "nil", msg |-> "", fc |-> 0, ec |-> 0]
Errorf(msg) == [kind |-> "fmt", msg |-> msg, fc |-> 0, ec |-> 0]
IoError(msg) == [kind |-> "io", msg |-> msg, fc |-> 0, ec |-> 0]
ModbusError(fc, ec) == [kind |-> "ModbusError", msg |-> "", fc |-> fc, ec |-> ec]
StageError(stage, id) == [kind |-> stage, msg |-> id, fc |-> 0, ec |-> 0]

\* responseError: the ModbusError of a response whose function code differs.
responseError(response) ==
    ModbusError(response.FunctionCode,
                IF Len(response.Data) > 0 THEN response.Data[1] ELSE 0)

(***************************************************************************)
(* The collaborators of the dispatcher.  Packager and Transporter are      *)
(* interfaces: what they return is the environment's choice env, a record  *)
(*   failAt  the first stage that returns an error ("none": no stage),     *)
(*   errId   which error value that stage returns,                         *)
(*   aduReq  the ADU Encode returns, aduResp the ADU Send returns,         *)
(*   pdu     the PDU Decode returns.                                       *)
(***************************************************************************)
Stages == <<"Encode", "Send", "Verify", "Decode">>

Call(stage, aduReq, aduResp, err, pdu) ==
    [stage |-> stage, aduReq |-> aduReq, aduResp |-> aduResp, err |-> err, pdu |-> pdu]

StageResult(env, stage) ==
    IF env.failAt = stage THEN StageError(stage, env.errId) ELSE NoError

\* The calls of the pipeline, as far as each is made
EncodeCall(request, env) ==
    Call("Encode", IF env.failAt = "Encode" THEN 0 ELSE env.aduReq, 0,
         StageResult(env, "Encode"), request)
SendCall(env) ==
    Call("Send", env.aduReq, IF env.failAt = "Send" THEN 0 ELSE env.aduResp,
         StageResult(env, "Send"), NoPdu)
VerifyCall(env) ==
    Call("Verify", env.aduReq, env.aduResp, StageResult(env, "Verify"), NoPdu)
DecodeCall(env) ==
    Call("Decode", 0, env.aduResp, StageResult(env, "Decode"),
         IF env.failAt = "Decode" THEN NoPdu ELSE env.pdu)

\* The end of send with the empty-data check before the function code check
CheckResponseEmptyFirst(request, response, trace) ==
    IF Len(response.Data) = 0
    THEN [response |-> response, err |-> Errorf("modbus: response data is empty"),
          trace |-> trace]
    ELSE IF response.FunctionCode # request.FunctionCode
    THEN [response |-> response, err |-> responseError(response), trace |-> trace]
    ELSE [response |-> response, err |-> NoError, trace |-> trace]

\* The end of send reporting an empty response as an exception
CheckResponseEmptyAsException(request, response, trace) ==
    IF response.FunctionCode # request.FunctionCode \/ Len(response.Data) = 0
    THEN [response |-> response, err |-> responseError(response), trace |-> trace]
    ELSE [response |-> response, err |-> NoError, trace |-> trace]

\* The end of send: check correct function code returned (exception), then
\* reject an empty response.
CheckResponse(request, response, trace) ==
    IF response.FunctionCode # request.FunctionCode
    THEN [response |-> response, err |-> responseError(response), trace |-> trace]
    ELSE IF Len(response.Data) = 0
    THEN [response |-> response, err |-> Errorf("modbus: response data is empty"),
          trace |-> trace]
    ELSE [response |-> response, err |-> NoError, trace |-> trace]

Failed(err, trace) == [response |-> NoPdu, err |-> err, trace |-> trace]

\* send with the error of Verify dropped: Decode runs on an unverified response
sendIgnoringVerify(request, env) ==
    LET t1 == <<EncodeCall(request, env)>>
        t2 == Append(t1, SendCall(env))
        t3 == Append(t2, VerifyCall(env))
        t4 == Append(t3, DecodeCall(env))
    IN  IF t1[1].err # NoError THEN Failed(t1[1].err, t1)
        ELSE IF t2[2].err # NoError THEN Failed(t2[2].err, t2)
        ELSE IF t4[4].err # NoError THEN Failed(t4[4].err, t4)
        ELSE CheckResponse(request, t4[4].pdu, t4)

\* send with one retry of a failed transporter.Send
sendRetrying(request, env) ==
    LET t1 == <<EncodeCall(request, env)>>
        t2 == Append(t1, SendCall(env))
        t3 == Append(t2, VerifyCall(env))
        t4 == Append(t3, DecodeCall(env))
    IN  IF t1[1].err # NoError THEN Failed(t1[1].err, t1)
        ELSE IF t2[2].err # NoError THEN Failed(t2[2].err, Append(t2, SendCall(env)))
        ELSE IF t3[3].err # NoError THEN Failed(t3[3].err, t3)
        ELSE IF t4[4].err # NoError THEN Failed(t4[4].err, t4)
        ELSE CheckResponse(request, t4[4].pdu, t4)

\* send sends request and checks possible exception in the response.
send(request, env) ==
    LET t1 == <<EncodeCall(request, env)>>
        t2 == Append(t1, SendCall(env))
        t3 == Append(t2, VerifyCall(env))
        t4 == Append(t3, DecodeCall(env))
    IN  IF t1[1].err # NoError THEN Failed(t1[1].err, t1)
        ELSE IF t2[2].err # NoError THEN Failed(t2[2].err, t2)
        ELSE IF t3[3].err # NoError THEN Failed(t3[3].err, t3)
        ELSE IF t4[4].err # NoError THEN Failed(t4[4].err, t4)
        ELSE CheckResponse(request, t4[4].pdu, t4)

(***************************************************************************)
(* The public operations.  Each returns what the Go method returns         *)
(* (results, err) with the request it built and the calls it made.         *)
(***************************************************************************)
Nil == <<>>

QuantityError == Errorf("modbus: quantity must be between")

Ret(results, err, request, trace) ==
    [results |-> results, err |-> err, request |-> request, trace |-> trace]

\* The byte-count check comparing the count with len(response.Data)
ByteCountResultOffByOne(request, r) ==
    IF r.err # NoError THEN Ret(Nil, r.err, request, r.trace)
    ELSE IF r.response.Data[1] # Len(r.response.Data)
         THEN Ret(Nil, Errorf("modbus: response data size does not match count"),
                  request, r.trace)
         ELSE Ret(SliceFrom(r.response.Data, 1), NoError, request, r.trace)

\* The byte-count response check shared by the read-style operations:
\* count := int(response.Data[0]); length := len(response.Data) - 1.
ByteCountResult(request, r) ==
    IF r.err # NoError THEN Ret(Nil, r.err, request, r.trace)
    ELSE LET count  == r.response.Data[1]
             length == Len(r.response.Data) - 1
         IN  IF count # length
             THEN Ret(Nil, Errorf("modbus: response data size does not match count"),
                      request, r.trace)
             ELSE Ret(SliceFrom(r.response.Data, 1), NoError, request, r.trace)

\* ReadCoils with the upper bound of the quantity off by one
ReadCoilsLooseBound(address, quantity, env) ==
    IF quantity < 1 \/ quantity > 2001 THEN Ret(Nil, QuantityError, NoPdu, <<>>)
    ELSE LET request == ProtocolDataUnit(FuncCodeReadCoils, dataBlock(<<address, quantity>>))
         IN  ByteCountResult(request, send(request, env))

ReadCoils(address, quantity, env) ==
    IF quantity < 1 \/ quantity > 2000 THEN Ret(Nil, QuantityError, NoPdu, <<>>)
    ELSE LET request == ProtocolDataUnit(FuncCodeReadCoils, dataBlock(<<address, quantity>>))
         IN  ByteCountResult(request, send(request, env))

ReadDiscreteInputs(address, quantity, env) ==
    IF quantity < 1 \/ quantity > 2000 THEN Ret(Nil, QuantityError, NoPdu, <<>>)
    ELSE LET request == ProtocolDataUnit(FuncCodeReadDiscreteInputs,
                                         dataBlock(<<address, quantity>>))
         IN  ByteCountResult(request, send(request, env))

ReadHoldingRegisters(address, quantity, env) ==
    IF quantity < 1 \/ quantity > 125 THEN Ret(Nil, QuantityError, NoPdu, <<>>)
    ELSE LET request == ProtocolDataUnit(FuncCodeReadHoldingRegisters,
                                         dataBlock(<<address, quantity>>))
         IN  ByteCountResult(request, send(request, env))

ReadInputRegisters(address, quantity, env) ==
    IF quantity < 1 \/ quantity > 125 THEN Ret(Nil, QuantityError, NoPdu, <<>>)
    ELSE LET request == ProtocolDataUnit(FuncCodeReadInputRegisters,
                                         dataBlock(<<address, quantity>>))
         IN  ByteCountResult(request, send(request, env))

\* The fixed-length echo check shared by functions 0x05, 0x06, 0x0F, 0x10:
\* len(response.Data) = 4, the address echoed, then results = response.Data[2:]
\* is assigned and the second word (value or quantity) compared.
EchoResult(request, r, address, second, what) ==
    IF r.err # NoError THEN Ret(Nil, r.err, request, r.trace)
    ELSE IF Len(r.response.Data) # 4
         THEN Ret(Nil, Errorf("modbus: response data size does not match expected"),
                  request, r.trace)
    ELSE IF address # Uint16At(r.response.Data, 0)
         THEN Ret(Nil, Errorf("modbus: response address does not match request"),
                  request, r.trace)
    ELSE LET results == SliceFrom(r.response.Data, 2)
         IN  IF second # Uint16At(results, 0)
             THEN Ret(results, Errorf(what), request, r.trace)
             ELSE Ret(results, NoError, request, r.trace)

ValueMismatch == "modbus: response value does not match request"
QuantityMismatch == "modbus: response quantity does not match request"

WriteSingleCoil(address, value, env) ==
    IF value # 65280 /\ value # 0
    THEN Ret(Nil, Errorf("modbus: state must be either 0xFF00 (ON) or 0x0000 (OFF)"),
             NoPdu, <<>>)
    ELSE LET request == ProtocolDataUnit(FuncCodeWriteSingleCoil, dataBlock(<<address, value>>))
         IN  EchoResult(request, send(request, env), address, value, ValueMismatch)

WriteSingleRegister(address, value, env) ==
    LET request == ProtocolDataUnit(FuncCodeWriteSingleRegister, dataBlock(<<address, value>>))
    IN  EchoResult(request, send(request, env), address, value, ValueMismatch)

WriteMultipleCoils(address, quantity, value, env) ==
    IF quantity < 1 \/ quantity > 1968 THEN Ret(Nil, QuantityError, NoPdu, <<>>)
    ELSE LET request == ProtocolDataUnit(FuncCodeWriteMultipleCoils,
                                         dataBlockSuffix(value, <<address, quantity>>))
         IN  EchoResult(request, send(request, env), address, quantity, QuantityMismatch)

WriteMultipleRegisters(address, quantity, value, env) ==
    IF quantity < 1 \/ quantity > 123 THEN Ret(Nil, QuantityError, NoPdu, <<>>)
    ELSE LET request == ProtocolDataUnit(FuncCodeWriteMultipleRegisters,
                                         dataBlockSuffix(value, <<address, quantity>>))
         IN  EchoResult(request, send(request, env), address, quantity, QuantityMismatch)

\* MaskWriteRegister without the comparison of the OR-mask
MaskWriteRegisterNoOrMask(address, andMask, orMask, env) ==
    LET request == ProtocolDataUnit(FuncCodeMaskWriteRegister,
                                    dataBlock(<<address, andMask, orMask>>))
        r == send(request, env)
    IN  IF r.err # NoError THEN Ret(Nil, r.err, request, r.trace)
        ELSE IF Len(r.response.Data) # 6
             THEN Ret(Nil, Errorf("modbus: response data size does not match expected"),
                      request, r.trace)
        ELSE IF address # Uint16At(r.response.Data, 0)
             THEN Ret(Nil, Errorf("modbus: response address does not match request"),
                      request, r.trace)
        ELSE IF andMask # Uint16At(r.response.Data, 2)
             THEN Ret(Nil, Errorf("modbus: response AND-mask does not match request"),
                      request, r.trace)
        ELSE Ret(SliceFrom(r.response.Data, 2), NoError, request, r.trace)

MaskWriteRegister(address, andMask, orMask, env) ==
    LET request == ProtocolDataUnit(FuncCodeMaskWriteRegister,
                                    dataBlock(<<address, andMask, orMask>>))
        r == send(request, env)
    IN  IF r.err # NoError THEN Ret(Nil, r.err, request, r.trace)
        ELSE IF Len(r.response.Data) # 6
             THEN Ret(Nil, Errorf("modbus: response data size does not match expected"),
                      request, r.trace)
        ELSE IF address # Uint16At(r.response.Data, 0)
             THEN Ret(Nil, Errorf("modbus: response address does not match request"),
                      request, r.trace)
        ELSE IF andMask # Uint16At(r.response.Data, 2)
             THEN Ret(Nil, Errorf("modbus: response AND-mask does not match request"),
                      request, r.trace)
        ELSE IF orMask # Uint16At(r.response.Data, 4)
             THEN Ret(Nil, Errorf("modbus: response OR-mask does not match request"),
                      request, r.trace)
        ELSE Ret(SliceFrom(r.response.Data, 2), NoError, request, r.trace)

ReadWriteMultipleRegisters(readAddress, readQuantity, writeAddress, writeQuantity, value, env) ==
    IF readQuantity < 1 \/ readQuantity > 125
    THEN Ret(Nil, Errorf("modbus: quantity to read must be between"), NoPdu, <<>>)
    ELSE IF writeQuantity < 1 \/ writeQuantity > 121
    THEN Ret(Nil, Errorf("modbus: quantity to write must be between"), NoPdu, <<>>)
    ELSE LET request == ProtocolDataUnit(FuncCodeReadWriteMultipleRegisters,
                 dataBlockSuffix(value,
                     <<readAddress, readQuantity, writeAddress, writeQuantity>>))
         IN  ByteCountResult(request, send(request, env))

ReadFIFOQueue(address, env) ==
    LET request == ProtocolDataUnit(FuncCodeReadFIFOQueue, dataBlock(<<address>>))
        r == send(request, env)
    IN  IF r.err # NoError THEN Ret(Nil, r.err, request, r.trace)
        ELSE IF Len(r.response.Data) < 4
             THEN Ret(Nil, Errorf("modbus: response data size is less than expected"),
                      request, r.trace)
        ELSE IF Uint16At(r.response.Data, 0) # Len(r.response.Data) - 1
             THEN Ret(Nil, Errorf("modbus: response data size does not match count"),
                      request, r.trace)
        ELSE IF Uint16At(r.response.Data, 2) > 31
             THEN Ret(Nil, Errorf("modbus: fifo count is greater than expected"),
                      request, r.trace)
        ELSE Ret(SliceFrom(r.response.Data, 4), NoError, request, r.trace)


(***************************************************************************)
(* bytes.Reader reads of a response, at a 0-based position pos             *)
(***************************************************************************)
EOF == IoError("EOF")
ErrUnexpectedEOF == IoError("unexpected EOF")

\* r.ReadByte() at pos: io.EOF when no byte is left
ReadByteErr(data, pos) == IF pos < Len(data) THEN NoError ELSE EOF

\* io.ReadFull(r, buf) for len(buf) = n at pos: nil for n = 0, io.EOF when no
\* byte was read, io.ErrUnexpectedEOF when fewer than n were
ReadFullErr(data, pos, n) ==
    IF n = 0 \/ Len(data) - pos >= n THEN NoError
    ELSE IF Len(data) - pos <= 0 THEN EOF
    ELSE ErrUnexpectedEOF

bytesToUint16s(b) ==
    [i \in 1..(Len(b) \div 2) |-> b[2 * i - 1] * 256 + b[2 * i]]

\* equalUint16Slices comparing the lengths alone
equalUint16SlicesLengthOnly(a, b) == Len(a) = Len(b)

equalUint16Slices(a, b) ==
    /\ Len(a) = Len(b)
    /\ \A i \in 1..Len(a) : a[i] = b[i]

\* The request data of WriteFileRecord with the data size alone as its first byte
WriteFileRecordDataSizeOnly(fileNumber, recordNumber, value, count) ==
    <<((count % 256) * 2) % 256, 6>>
        \o dataBlock(<<fileNumber, recordNumber, count>>)
        \o dataBlock(value)

\* The request data of WriteFileRecord: dataSize := uint8(count) * 2 in uint8
\* arithmetic, then {7 + dataSize, 6}, the sub-request header and the record.
WriteFileRecordData(fileNumber, recordNumber, value, count) ==
    LET dataSize == ((count % 256) * 2) % 256
    IN  <<(7 + dataSize) % 256, 6>>
            \o dataBlock(<<fileNumber, recordNumber, count>>)
            \o dataBlock(value)

\* The parse of the WriteFileRecord response data d; the error it ends with.
WriteFileRecordCheck(d, fileNumber, recordNumber, value, count) ==
    IF ReadByteErr(d, 0) # NoError THEN ReadByteErr(d, 0)
    ELSE IF d[1] > 251 THEN Errorf("modbus: response size invalid")
    ELSE IF ReadByteErr(d, 1) # NoError THEN ReadByteErr(d, 1)
    ELSE IF d[2] # 6 THEN Errorf("modbus: response reference type invalid")
    ELSE IF ReadFullErr(d, 2, 2) # NoError THEN ReadFullErr(d, 2, 2)
    ELSE IF Uint16At(d, 2) # fileNumber THEN Errorf("modbus: response file number invalid")
    ELSE IF ReadFullErr(d, 4, 2) # NoError THEN ReadFullErr(d, 4, 2)
    ELSE IF Uint16At(d, 4) # recordNumber
         THEN Errorf("modbus: response record number invalid")
    ELSE IF ReadFullErr(d, 6, 2) # NoError THEN ReadFullErr(d, 6, 2)
    ELSE IF Uint16At(d, 6) # count THEN Errorf("modbus: response record length invalid")
    ELSE LET responseDataSize == (Uint16At(d, 6) * 2) % 65536
         IN  IF ReadFullErr(d, 8, responseDataSize) # NoError
             THEN ReadFullErr(d, 8, responseDataSize)
             ELSE IF ~equalUint16Slices(value,
                        bytesToUint16s(SubSeq(d, 9, 8 + responseDataSize)))
             THEN Errorf("modbus: request and response file record does not match")
             ELSE NoError

WriteFileRecord(fileNumber, recordNumber, value, count, env) ==
    IF fileNumber = 0 THEN Ret(Nil, Errorf("modbus: invalid file number"), NoPdu, <<>>)
    ELSE IF recordNumber > 9999
    THEN Ret(Nil, Errorf("modbus: invalid record number"), NoPdu, <<>>)
    ELSE IF count > 122 THEN Ret(Nil, Errorf("modbus: invalid record count"), NoPdu, <<>>)
    ELSE LET request == ProtocolDataUnit(FuncCodeWriteFileRecord,
                 WriteFileRecordData(fileNumber, recordNumber, value, count))
             r == send(request, env)
         IN  IF r.err # NoError THEN Ret(Nil, r.err, request, r.trace)
             ELSE Ret(Nil,
                      WriteFileRecordCheck(r.response.Data, fileNumber, recordNumber,
                                           value, count),
                      request, r.trace)

(***************************************************************************)
(* Read Device Identification (function 0x2B, MEI type 0x0E)               *)
(***************************************************************************)
meiType == 14

NoObjects == [id \in {} |-> <<>>]

\* results[objID] = val on a Go map: a later object replaces an earlier one
MapPut(objs, id, val) ==
    [k \in (DOMAIN objs) \cup {id} |-> IF k = id THEN val ELSE objs[k]]

\* objs[id] on a Go map: nil for an absent key
MapGet(objs, id) == IF id \in DOMAIN objs THEN objs[id] ELSE Nil

\* The object loop returning what it has read when the list ends early
RECURSIVE ReadObjectsPartial(_, _, _, _)
ReadObjectsPartial(d, pos, i, results) ==
    IF i = 0 THEN [objs |-> results, err |-> NoError]
    ELSE IF ReadByteErr(d, pos) # NoError \/ ReadByteErr(d, pos + 1) # NoError
         THEN [objs |-> results, err |-> NoError]
    ELSE IF ReadFullErr(d, pos + 2, d[pos + 2]) # NoError
         THEN [objs |-> results, err |-> NoError]
    ELSE ReadObjectsPartial(d, pos + 2 + d[pos + 2], i - 1,
             MapPut(results, d[pos + 1], SubSeq(d, pos + 3, pos + 2 + d[pos + 2])))

\* The object loop of readDeviceIdentification: i objects are still to be read
\* from position pos of d; the result is the map or the error that ended it.
RECURSIVE ReadObjects(_, _, _, _)
ReadObjects(d, pos, i, results) ==
    IF i = 0 THEN [objs |-> results, err |-> NoError]
    ELSE IF ReadByteErr(d, pos) # NoError THEN [objs |-> NoObjects, err |-> ReadByteErr(d, pos)]
    ELSE IF ReadByteErr(d, pos + 1) # NoError
         THEN [objs |-> NoObjects, err |-> ReadByteErr(d, pos + 1)]
    ELSE LET objID  == d[pos + 1]
             objLen == d[pos + 2]
         IN  IF ReadFullErr(d, pos + 2, objLen) # NoError
             THEN [objs |-> NoObjects, err |-> ReadFullErr(d, pos + 2, objLen)]
             ELSE ReadObjects(d, pos + 2 + objLen, i - 1,
                      MapPut(results, objID, SubSeq(d, pos + 3, pos + 2 + objLen)))

\* The conformity level compared whole
WholeByte(b) == b

\* respConformityLevel & 0x01
LowBit(b) == b % 2

\* The parse of the response data d of readDeviceIdentification.
DeviceIdentificationParse(d, readDeviceIDCode) ==
    LET fail(e) == [objs |-> NoObjects, err |-> e]
    IN  IF ReadByteErr(d, 0) # NoError THEN fail(ReadByteErr(d, 0))
        ELSE IF d[1] # meiType
             THEN fail(Errorf("modbus: response mei type does not match request"))
        ELSE IF ReadByteErr(d, 1) # NoError THEN fail(ReadByteErr(d, 1))
        ELSE IF d[2] # readDeviceIDCode
             THEN fail(Errorf("modbus: response device ID code does not match request"))
        ELSE IF ReadByteErr(d, 2) # NoError THEN fail(ReadByteErr(d, 2))
        ELSE IF LowBit(d[3]) > 3
             THEN fail(Errorf("modbus: invalid response conformity level"))
        ELSE IF ReadByteErr(d, 3) # NoError THEN fail(ReadByteErr(d, 3))
        ELSE IF d[4] # 0 /\ d[4] # 255
             THEN fail(Errorf("modbus: invalid response more follows flag"))
        ELSE IF ReadByteErr(d, 4) # NoError THEN fail(ReadByteErr(d, 4))
        ELSE IF ReadByteErr(d, 5) # NoError THEN fail(ReadByteErr(d, 5))
        ELSE IF d[5] # 0
             THEN fail(Errorf("modbus: currently not supporting multi-transaction responses"))
        ELSE ReadObjects(d, 6, d[6], NoObjects)

\* readDeviceIdentification: results is the object map (empty for nil).
readDeviceIdentification(objectID, readDeviceIDCode, env) ==
    LET request == ProtocolDataUnit(FuncCodeReadDeviceIdentification,
                                    <<meiType, readDeviceIDCode, objectID>>)
        r == send(request, env)
    IN  IF r.err # NoError THEN Ret(NoObjects, r.err, request, r.trace)
        ELSE LET p == DeviceIdentificationParse(r.response.Data, readDeviceIDCode)
             IN  Ret(p.objs, p.err, request, r.trace)

BasicDeviceID(objs) ==
    [VendorName |-> MapGet(objs, 0), ProductCode |-> MapGet(objs, 1),
     MajorMinorVersion |-> MapGet(objs, 2)]

RegularDeviceID(objs) ==
    [Basic |-> BasicDeviceID(objs), VendorURL |-> MapGet(objs, 3),
     ProductName |-> MapGet(objs, 4), ModelName |-> MapGet(objs, 5),
     UserApplicationName |-> MapGet(objs, 6)]

\* The extended map filled with every object
ExtendedObjectsOfAll(objs) == objs

ExtendedObjectsOf(objs) == [id \in {k \in DOMAIN objs : k > 6} |-> objs[id]]

ExtendedDeviceID(objs, ext) == [Regular |-> RegularDeviceID(objs), ExtendedObjects |-> ext]

ReadDeviceIdentificationBasic(env) ==
    LET r == readDeviceIdentification(0, 1, env)
    IN  Ret(BasicDeviceID(r.results), r.err, r.request, r.trace)

ReadDeviceIdentificationRegular(env) ==
    LET r == readDeviceIdentification(0, 2, env)
    IN  Ret(RegularDeviceID(r.results), r.err, r.request, r.trace)

\* On error the zero ExtendedDeviceID is returned: its map is nil.
ReadDeviceIdentificationExtended(env) ==
    LET r == readDeviceIdentification(0, 3, env)
    IN  IF r.err # NoError
        THEN Ret(ExtendedDeviceID(NoObjects, NoObjects), r.err, r.request, r.trace)
        ELSE Ret(ExtendedDeviceID(r.results, ExtendedObjectsOf(r.results)),
                 NoError, r.request, r.trace)


(***************************************************************************)
(* The inputs of the dispatcher: arguments and collaborator behaviour      *)
(***************************************************************************)
MaxAdu     == 2    \* ADUs the packager and the transporter may hand back
MaxPayload == 2    \* payload bytes of a byte-count response

AduIds == 1..MaxAdu
ErrIds == {"e1", "e2"}

Addresses == {0, 172, 65535}
Words     == {0, 1, 65280, 65535}
\* Values to write: none, one byte, scenario 2's two bytes, and 257 bytes (more
\* than the length byte can count)
Suffixes  == {<<>>, <<1>>, <<205, 1>>, [i \in 1..257 |-> i % 256]}

RECURSIVE SeqsUpTo(_, _)
SeqsUpTo(S, n) ==
    IF n = 0 THEN {<<>>}
    ELSE LET shorter == SeqsUpTo(S, n - 1)
         IN  shorter \cup {Append(q, x) : q \in {r \in shorter : Len(r) = n - 1}, x \in S}

\* request_fc | 0x80 for a request function code below 0x80
ExceptionFc(fc) == fc + 128

\* The PDUs Decode may return for a request of function fc: the function's own
\* responses with the given data (or none), exception responses, another function.
ResponsePdus(fc, datas) ==
    {ProtocolDataUnit(fc, d) : d \in datas \cup {<<>>}}
        \cup {ProtocolDataUnit(ExceptionFc(fc), d) : d \in {<<>>, <<1>>, <<2>>, <<11, 0>>}}
        \cup {ProtocolDataUnit(IF fc = 1 THEN 2 ELSE 1, <<3>>)}

Envs(pdus) ==
    {[failAt |-> "none", errId |-> "e1", aduReq |-> a, aduResp |-> b, pdu |-> p] :
        a \in AduIds, b \in AduIds, p \in pdus}
    \cup {[failAt |-> Stages[i], errId |-> e, aduReq |-> a, aduResp |-> b, pdu |-> NoPdu] :
        i \in 1..4, e \in ErrIds, a \in AduIds, b \in AduIds}

\* Byte-count responses: a count byte and a payload, consistent or not
ByteCountDatas ==
    {<<c>> \o q : c \in 0..(MaxPayload + 1), q \in SeqsUpTo({0, 171}, MaxPayload)}

\* d with byte i (1-based) replaced by b
WithByte(d, i, b) == [d EXCEPT ![i] = b]

\* An echo and its corruptions: every single byte changed (by one, and to its
\* complement), every proper prefix, one byte appended.
EchoDatas(echo) ==
    {echo}
        \cup {WithByte(echo, i, (echo[i] + 1) % 256) : i \in 1..Len(echo)}
        \cup {WithByte(echo, i, 255 - echo[i]) : i \in 1..Len(echo)}
        \cup {SubSeq(echo, 1, n) : n \in 0..(Len(echo) - 1)}
        \cup {Append(echo, 0)}

FIFODatas ==
    {<<0, 6, 0, 2, 1, 2, 3, 4>>, <<0, 7, 0, 2, 1, 2, 3, 4>>, <<0, 3, 0, 0>>,
     <<0, 3, 0, 31>>, <<0, 3, 0, 32>>, <<1, 3, 0, 0>>, <<0, 2, 0>>, <<0>>,
     <<0, 5, 0, 1, 9, 9>>, <<0, 4, 0, 1, 9>>}

\* Device identification responses for a request code: object lists that are
\* well formed, and every prefix of them, with each header byte varied.
DeviceIdObjectLists ==
    {<<0>>, <<1, 0, 1, 65>>, <<2, 0, 1, 65, 7, 2, 66, 67>>,
     <<3, 0, 5, 86, 101, 110, 100, 114, 1, 2, 80, 67, 2, 3, 49, 46, 48>>,
     <<2, 3, 1, 85, 128, 0>>, <<2, 1, 1, 65, 1, 1, 66>>}

DeviceIdDatas(code) ==
    LET whole == {<<m, c, l, f, x>> \o objs :
                    m \in {meiType, 13}, c \in {code, 4}, l \in {1, 130},
                    f \in {0, 255, 1}, x \in {0, 1}, objs \in DeviceIdObjectLists}
        good  == {<<meiType, code, 1, 0, 0>> \o objs : objs \in DeviceIdObjectLists}
    IN  whole \cup UNION {{SubSeq(d, 1, n) : n \in 0..Len(d)} : d \in good}

(***************************************************************************)
(* The dispatcher as a state machine: one action per public operation      *)
(***************************************************************************)
\* A call starts from a client that holds no result; the client struct keeps
\* nothing between calls (its fields are the packager and the transporter).
Ready == cOp = "none"

Returns(name, args, r) ==
    /\ cOp' = name
    /\ cArgs' = args
    /\ cReq' = r.request
    /\ cRes' = r.results
    /\ cErr' = r.err
    /\ cTrace' = r.trace
    /\ UNCHANGED transportVars

CallReadCoils ==
    /\ Ready
    /\ \E address \in Addresses, quantity \in {0, 1, 2, 2000, 2001, 65535} :
         \E env \in Envs(ResponsePdus(FuncCodeReadCoils, ByteCountDatas)) :
           Returns("ReadCoils", <<address, quantity>>, ReadCoils(address, quantity, env))

CallReadDiscreteInputs ==
    /\ Ready
    /\ \E address \in Addresses, quantity \in {0, 1, 2, 2000, 2001, 65535} :
         \E env \in Envs(ResponsePdus(FuncCodeReadDiscreteInputs, ByteCountDatas)) :
           Returns("ReadDiscreteInputs", <<address, quantity>>,
                   ReadDiscreteInputs(address, quantity, env))

CallReadHoldingRegisters ==
    /\ Ready
    /\ \E address \in Addresses, quantity \in {0, 1, 3, 125, 126, 65535} :
         \E env \in Envs(ResponsePdus(FuncCodeReadHoldingRegisters, ByteCountDatas)) :
           Returns("ReadHoldingRegisters", <<address, quantity>>,
                   ReadHoldingRegisters(address, quantity, env))

CallReadInputRegisters ==
    /\ Ready
    /\ \E address \in Addresses, quantity \in {0, 1, 3, 125, 126, 65535} :
         \E env \in Envs(ResponsePdus(FuncCodeReadInputRegisters, ByteCountDatas)) :
           Returns("ReadInputRegisters", <<address, quantity>>,
                   ReadInputRegisters(address, quantity, env))

CallWriteSingleCoil ==
    /\ Ready
    /\ \E address \in Addresses, value \in Words :
         \E env \in Envs(ResponsePdus(FuncCodeWriteSingleCoil,
                                      EchoDatas(dataBlock(<<address, value>>)))) :
           Returns("WriteSingleCoil", <<address, value>>, WriteSingleCoil(address, value, env))

CallWriteSingleRegister ==
    /\ Ready
    /\ \E address \in Addresses, value \in Words :
         \E env \in Envs(ResponsePdus(FuncCodeWriteSingleRegister,
                                      EchoDatas(dataBlock(<<address, value>>)))) :
           Returns("WriteSingleRegister", <<address, value>>,
                   WriteSingleRegister(address, value, env))

CallWriteMultipleCoils ==
    /\ Ready
    /\ \E address \in Addresses, quantity \in {0, 1, 1968, 1969, 65535}, value \in Suffixes :
         \E env \in Envs(ResponsePdus(FuncCodeWriteMultipleCoils,
                                      EchoDatas(dataBlock(<<address, quantity>>)))) :
           Returns("WriteMultipleCoils", <<address, quantity, value>>,
                   WriteMultipleCoils(address, quantity, value, env))

CallWriteMultipleRegisters ==
    /\ Ready
    /\ \E address \in Addresses, quantity \in {0, 1, 123, 124, 65535}, value \in Suffixes :
         \E env \in Envs(ResponsePdus(FuncCodeWriteMultipleRegisters,
                                      EchoDatas(dataBlock(<<address, quantity>>)))) :
           Returns("WriteMultipleRegisters", <<address, quantity, value>>,
                   WriteMultipleRegisters(address, quantity, value, env))

CallMaskWriteRegister ==
    /\ Ready
    /\ \E address \in Addresses, andMask \in {0, 242, 65535}, orMask \in {0, 37, 65280} :
         \E env \in Envs(ResponsePdus(FuncCodeMaskWriteRegister,
                                      EchoDatas(dataBlock(<<address, andMask, orMask>>)))) :
           Returns("MaskWriteRegister", <<address, andMask, orMask>>,
                   MaskWriteRegister(address, andMask, orMask, env))

CallReadWriteMultipleRegisters ==
    /\ Ready
    /\ \E readAddress \in {0, 172}, readQuantity \in {0, 1, 125, 126},
          writeAddress \in {0, 172}, writeQuantity \in {0, 1, 121, 122}, value \in Suffixes :
         \E env \in Envs(ResponsePdus(FuncCodeReadWriteMultipleRegisters, ByteCountDatas)) :
           Returns("ReadWriteMultipleRegisters",
                   <<readAddress, readQuantity, writeAddress, writeQuantity, value>>,
                   ReadWriteMultipleRegisters(readAddress, readQuantity, writeAddress,
                                              writeQuantity, value, env))

CallReadFIFOQueue ==
    /\ Ready
    /\ \E address \in {0, 1246} :
         \E env \in Envs(ResponsePdus(FuncCodeReadFIFOQueue, FIFODatas)) :
           Returns("ReadFIFOQueue", <<address>>, ReadFIFOQueue(address, env))

\* Responses to WriteFileRecord: the echo and its corruptions, and the echo of
\* the header with as many record words as the header's count announces.
FileRecordDatas(fileNumber, recordNumber, value, count) ==
    LET echo == WriteFileRecordData(fileNumber, recordNumber, value, count)
    IN  EchoDatas(echo)
            \cup {SubSeq(echo, 1, 8) \o dataBlock([i \in 1..count |-> w]) :
                    w \in IF count <= 2 THEN {0, 1} ELSE {}}
            \cup {WithByte(echo, 1, 252)}

CallWriteFileRecord ==
    /\ Ready
    /\ \E fileNumber \in {0, 4}, recordNumber \in {1, 9999, 10000},
          count \in {0, 1, 2, 122, 123, 65535}, value \in {<<>>, <<1>>, <<3582, 32>>} :
         \E env \in Envs(ResponsePdus(FuncCodeWriteFileRecord,
                             FileRecordDatas(fileNumber, recordNumber, value, count))) :
           Returns("WriteFileRecord", <<fileNumber, recordNumber, value, count>>,
                   WriteFileRecord(fileNumber, recordNumber, value, count, env))

CallReadDeviceIdentificationBasic ==
    /\ Ready
    /\ \E env \in Envs(ResponsePdus(FuncCodeReadDeviceIdentification, DeviceIdDatas(1))) :
           Returns("ReadDeviceIdentificationBasic", <<>>, ReadDeviceIdentificationBasic(env))

CallReadDeviceIdentificationRegular ==
    /\ Ready
    /\ \E env \in Envs(ResponsePdus(FuncCodeReadDeviceIdentification, DeviceIdDatas(2))) :
           Returns("ReadDeviceIdentificationRegular", <<>>, ReadDeviceIdentificationRegular(env))

CallReadDeviceIdentificationExtended ==
    /\ Ready
    /\ \E env \in Envs(ResponsePdus(FuncCodeReadDeviceIdentification, DeviceIdDatas(3))) :
           Returns("ReadDeviceIdentificationExtended", <<>>,
                   ReadDeviceIdentificationExtended(env))

ClientInit ==
    /\ cOp = "none"
    /\ cArgs = <<>>
    /\ cReq = NoPdu
    /\ cRes = Nil
    /\ cErr = NoError
    /\ cTrace = <<>>

\* The caller takes the result; the next call starts afresh.
TakeResult ==
    /\ cOp # "none"
    /\ cOp' = "none"
    /\ cArgs' = <<>>
    /\ cReq' = NoPdu
    /\ cRes' = Nil
    /\ cErr' = NoError
    /\ cTrace' = <<>>
    /\ UNCHANGED transportVars

ClientNext ==
    \/ TakeResult
    \/ CallReadCoils
    \/ CallReadDiscreteInputs
    \/ CallReadHoldingRegisters
    \/ CallReadInputRegisters
    \/ CallWriteSingleCoil
    \/ CallWriteSingleRegister
    \/ CallWriteMultipleCoils
    \/ CallWriteMultipleRegisters
    \/ CallMaskWriteRegister
    \/ CallReadWriteMultipleRegisters
    \/ CallReadFIFOQueue
    \/ CallWriteFileRecord
    \/ CallReadDeviceIdentificationBasic
    \/ CallReadDeviceIdentificationRegular
    \/ CallReadDeviceIdentificationExtended


(***************************************************************************)
(* Properties of the dispatcher (checked under ClientSpec)                 *)
(***************************************************************************)
ReadStyleOps == {"ReadCoils", "ReadDiscreteInputs", "ReadHoldingRegisters",
                 "ReadInputRegisters", "ReadWriteMultipleRegisters"}
EchoStyleOps == {"WriteSingleCoil", "WriteSingleRegister", "WriteMultipleCoils",
                 "WriteMultipleRegisters", "MaskWriteRegister"}

\* The call that just returned was given arguments outside the documented band.
ArgumentViolation ==
    \/ cOp \in {"ReadCoils", "ReadDiscreteInputs"} /\ cArgs[2] \notin 1..2000
    \/ cOp \in {"ReadHoldingRegisters", "ReadInputRegisters"} /\ cArgs[2] \notin 1..125
    \/ cOp = "WriteSingleCoil" /\ cArgs[2] \notin {0, 65280}
    \/ cOp = "WriteMultipleCoils" /\ cArgs[2] \notin 1..1968
    \/ cOp = "WriteMultipleRegisters" /\ cArgs[2] \notin 1..123
    \/ cOp = "ReadWriteMultipleRegisters"
         /\ (cArgs[2] \notin 1..125 \/ cArgs[4] \notin 1..121)
    \/ cOp = "WriteFileRecord"
         /\ (cArgs[1] = 0 \/ cArgs[2] > 9999 \/ cArgs[4] > 122)

CalledStages == {cTrace[i].stage : i \in 1..Len(cTrace)}

\* Every stage ran and none failed: Decode handed a response PDU to send.
Delivered == Len(cTrace) = 4 /\ \A i \in 1..4 : cTrace[i].err = NoError
DecodedPdu == cTrace[4].pdu

\* send returned the response to the operation: the function code matched and
\* the data was not empty.
Accepted ==
    /\ Delivered
    /\ DecodedPdu.FunctionCode = cReq.FunctionCode
    /\ Len(DecodedPdu.Data) > 0

\* C1: a call whose arguments violate the operation's constraint returns an
\* error and invokes neither packager.Encode nor transporter.Send.
C1_ValidationSendsNothing ==
    ArgumentViolation =>
        /\ cErr # NoError
        /\ "Encode" \notin CalledStages
        /\ "Send" \notin CalledStages

C1_Witness ==
    /\ cOp = "ReadWriteMultipleRegisters"
    /\ cArgs[2] = 125
    /\ cArgs[4] = 122
    /\ cErr # NoError

\* C2 (as the specification states it): an exception response, function code
\* request_fc | 0x80 with a one-byte exception code, yields a ModbusError whose
\* FunctionCode is the request's function code and whose ExceptionCode is that byte.
C2_ExceptionCarriesRequestFc ==
    ( /\ Delivered
      /\ DecodedPdu.FunctionCode = ExceptionFc(cReq.FunctionCode)
      /\ Len(DecodedPdu.Data) = 1 )
        => cErr = ModbusError(cReq.FunctionCode, DecodedPdu.Data[1])

\* C7: a read-style operation that succeeds returns a payload whose length is
\* the response's byte-count field and len(response data) - 1; a response whose
\* byte-count field differs from len(response data) - 1 is an error.
C7_ByteCountMatches ==
    (cOp \in ReadStyleOps /\ ~ArgumentViolation) =>
        /\ cErr = NoError =>
              /\ Accepted
              /\ Len(cRes) = DecodedPdu.Data[1]
              /\ Len(cRes) = Len(DecodedPdu.Data) - 1
              /\ cRes = Tail(DecodedPdu.Data)
        /\ (Accepted /\ DecodedPdu.Data[1] # Len(DecodedPdu.Data) - 1) => cErr # NoError

C7_Witness ==
    /\ cOp = "ReadWriteMultipleRegisters"
    /\ cErr = NoError
    /\ Len(cRes) = 2

\* The fields an echo-style response must repeat, and the value(s) returned.
EchoOf(op, args) ==
    IF op = "MaskWriteRegister" THEN dataBlock(<<args[1], args[2], args[3]>>)
    ELSE dataBlock(<<args[1], args[2]>>)

EchoedValues(op, args) ==
    IF op = "MaskWriteRegister" THEN dataBlock(<<args[2], args[3]>>)
    ELSE dataBlock(<<args[2]>>)

OneByteDiffers(d, e) ==
    /\ Len(d) = Len(e)
    /\ Cardinality({i \in 1..Len(d) : d[i] # e[i]}) = 1

\* C8: for an echo-style operation a byte-identical echo succeeds and yields the
\* input value(s); an echo with one byte changed, or a response of another
\* length, is an error.
C8_EchoValidated ==
    (cOp \in EchoStyleOps /\ Delivered /\ DecodedPdu.FunctionCode = cReq.FunctionCode) =>
        LET d == DecodedPdu.Data
            e == EchoOf(cOp, cArgs)
        IN  /\ d = e => (cErr = NoError /\ cRes = EchoedValues(cOp, cArgs))
            /\ (OneByteDiffers(d, e) \/ Len(d) # Len(e)) => cErr # NoError

C8_Witness ==
    /\ cOp = "MaskWriteRegister"
    /\ Delivered
    /\ DecodedPdu.FunctionCode = cReq.FunctionCode
    /\ OneByteDiffers(DecodedPdu.Data, EchoOf(cOp, cArgs))
    /\ DecodedPdu.Data[6] # EchoOf(cOp, cArgs)[6]
    /\ cErr # NoError

\* C9: the stages run in the order Encode, Send, Verify, Decode, each on what
\* the stage before returned; a failing stage is the last one called; and a
\* response is inspected or returned only after Verify succeeded on the pair
\* (request ADU, response ADU).
C9_PipelineOrder ==
    /\ [i \in 1..Len(cTrace) |-> cTrace[i].stage] = SubSeq(Stages, 1, Len(cTrace))
    /\ \A i \in 1..(Len(cTrace) - 1) : cTrace[i].err = NoError
    /\ Len(cTrace) >= 2 => cTrace[2].aduReq = cTrace[1].aduReq
    /\ Len(cTrace) >= 3 =>
          /\ cTrace[3].aduReq = cTrace[1].aduReq
          /\ cTrace[3].aduResp = cTrace[2].aduResp
    /\ Len(cTrace) >= 4 => cTrace[4].aduResp = cTrace[2].aduResp
    /\ (cReq # NoPdu /\ cErr.kind \in {"nil", "ModbusError", "fmt", "io"}) => Delivered

C9_Witness ==
    /\ Len(cTrace) = 3
    /\ cTrace[3].stage = "Verify"
    /\ cTrace[3].err # NoError
    /\ cErr # NoError

\* C10: an operation invokes transporter.Send at most once, and the error a
\* stage returned is the error the operation returns.
C10_NoRetrySameError ==
    /\ Cardinality({i \in 1..Len(cTrace) : cTrace[i].stage = "Send"}) <= 1
    /\ \A i \in 1..Len(cTrace) : cTrace[i].err # NoError => cErr = cTrace[i].err

C10_Witness ==
    /\ cOp = "ReadCoils"
    /\ Len(cTrace) = 2
    /\ cTrace[2].err = StageError("Send", "e2")
    /\ cErr = StageError("Send", "e2")

\* C11: ReadFIFOQueue(0x04DE) answered with the data 0006 0002 0102 0304 (byte
\* count 6, FIFO count 2, two registers) returns 01 02 03 04 and no error.
C11_FIFOScenario ==
    (/\ cOp = "ReadFIFOQueue"
     /\ cArgs = <<1246>>
     /\ Accepted
     /\ DecodedPdu.Data = <<0, 6, 0, 2, 1, 2, 3, 4>>)
        => (cErr = NoError /\ cRes = <<1, 2, 3, 4>>)

\* C12: a WriteFileRecord call that passes validation sends, whatever the
\* value slice, the data 7 + 2*count, 0x06, file number, record number, count
\* and exactly 2*count bytes of registers, so that the leading byte is the
\* number of bytes after it.
C12_FileRecordRequestLayout ==
    (cOp = "WriteFileRecord" /\ ~ArgumentViolation)
        => /\ cReq.FunctionCode = FuncCodeWriteFileRecord
           /\ Len(cReq.Data) = 8 + 2 * cArgs[4]
           /\ SubSeq(cReq.Data, 1, 8)
                  = <<7 + 2 * cArgs[4], 6>> \o dataBlock(<<cArgs[1], cArgs[2], cArgs[4]>>)
           /\ cReq.Data[1] = Len(cReq.Data) - 1

Scenario4Args == <<4, 1, <<3582, 32>>, 2>>
Scenario4DataStated == <<13, 6, 0, 4, 0, 1, 0, 2, 13, 254, 0, 32>>
Scenario4DataBuilt  == <<11, 6, 0, 4, 0, 1, 0, 2, 13, 254, 0, 32>>

\* C13 as stated: WriteFileRecord(4, 1, [0x0DFE, 0x0020], 2) builds the request
\* PDU 15 0D 06 0004 0001 0002 0DFE 0020, and returns no error when the
\* response echoes the request.
C13_FileRecordScenario ==
    (cOp = "WriteFileRecord" /\ cArgs = Scenario4Args)
        => /\ cReq = ProtocolDataUnit(21, Scenario4DataStated)
           /\ (Accepted /\ DecodedPdu.Data = cReq.Data) => cErr = NoError

\* C13 amended: the request PDU is 15 0B 06 0004 0001 0002 0DFE 0020 (the
\* leading byte is 7 + 2*2 = 0x0B), and the call returns no error when the
\* response echoes it.
C13_FileRecordScenarioAmended ==
    (cOp = "WriteFileRecord" /\ cArgs = Scenario4Args)
        => /\ cReq = ProtocolDataUnit(21, Scenario4DataBuilt)
           /\ (Accepted /\ DecodedPdu.Data = cReq.Data) => cErr = NoError

C13_Witness ==
    /\ cOp = "WriteFileRecord"
    /\ cArgs = Scenario4Args
    /\ Accepted
    /\ DecodedPdu = ProtocolDataUnit(21, Scenario4DataBuilt)
    /\ cErr = NoError

\* C14: a WriteFileRecord call with valid arguments returns no error only if
\* the response data is a size byte <= 251, reference type 6, the request's
\* file number, record number and record length, and 2 * length data bytes
\* whose big-endian words are the request values, element by element.
C14_FileRecordResponseValidated ==
    (cOp = "WriteFileRecord" /\ ~ArgumentViolation /\ cErr = NoError)
        => /\ Accepted
           /\ LET d == DecodedPdu.Data
                  count == cArgs[4]
              IN  /\ Len(d) >= 8 + 2 * count
                  /\ d[1] <= 251
                  /\ d[2] = 6
                  /\ d[3] * 256 + d[4] = cArgs[1]
                  /\ d[5] * 256 + d[6] = cArgs[2]
                  /\ d[7] * 256 + d[8] = count
                  /\ Len(cArgs[3]) = count
                  /\ \A i \in 1..count : d[7 + 2 * i] * 256 + d[8 + 2 * i] = cArgs[3][i]

C14_Witness ==
    /\ cOp = "WriteFileRecord"
    /\ cArgs = <<4, 9999, <<1>>, 1>>
    /\ Accepted
    /\ DecodedPdu.Data = <<9, 6, 0, 4, 39, 15, 0, 1, 0, 1>>
    /\ cErr = NoError

DeviceIdOps == {"ReadDeviceIdentificationBasic", "ReadDeviceIdentificationRegular",
                "ReadDeviceIdentificationExtended"}

\* The read-device-ID code each operation requests
DeviceIdCode == IF cOp = "ReadDeviceIdentificationBasic" THEN 1
                ELSE IF cOp = "ReadDeviceIdentificationRegular" THEN 2 ELSE 3

\* n objects (id, length, value of that length) lie in d from position pos on
RECURSIVE ObjectsFit(_, _, _)
ObjectsFit(d, pos, n) ==
    \/ n = 0
    \/ /\ pos + 2 <= Len(d)
       /\ pos + 2 + d[pos + 2] <= Len(d)
       /\ ObjectsFit(d, pos + 2 + d[pos + 2], n - 1)

\* The response data d is one of the cases the operation must refuse.
DeviceIdRefused(d, code) ==
    \/ Len(d) >= 1 /\ d[1] # 14
    \/ Len(d) >= 2 /\ d[2] # code
    \/ Len(d) >= 4 /\ d[4] \notin {0, 255}
    \/ Len(d) >= 5 /\ d[5] # 0
    \/ Len(d) >= 6 /\ ~ObjectsFit(d, 6, d[6])

\* The result carries no object: every field is nil.
NoObjectReturned ==
    IF cOp = "ReadDeviceIdentificationBasic"
    THEN cRes = [VendorName |-> Nil, ProductCode |-> Nil, MajorMinorVersion |-> Nil]
    ELSE IF cOp = "ReadDeviceIdentificationRegular"
    THEN cRes = [Basic |-> [VendorName |-> Nil, ProductCode |-> Nil,
                            MajorMinorVersion |-> Nil],
                 VendorURL |-> Nil, ProductName |-> Nil, ModelName |-> Nil,
                 UserApplicationName |-> Nil]
    ELSE cRes = [Regular |-> [Basic |-> [VendorName |-> Nil, ProductCode |-> Nil,
                                         MajorMinorVersion |-> Nil],
                              VendorURL |-> Nil, ProductName |-> Nil, ModelName |-> Nil,
                              UserApplicationName |-> Nil],
                 ExtendedObjects |-> NoObjects]

\* C15: readDeviceIdentification sends the data 0x0E, the code, object id 0, and
\* returns an error and no object when the response's MEI type is not 0x0E,
\* the echoed code differs, the more-follows flag is neither 0x00 nor 0xFF,
\* the next object id is not 0, or the object list ends before the declared
\* number of objects.
C15_DeviceIdRefusals ==
    cOp \in DeviceIdOps
        => /\ cReq = ProtocolDataUnit(43, <<14, DeviceIdCode, 0>>)
           /\ (Accepted /\ DeviceIdRefused(DecodedPdu.Data, DeviceIdCode))
                 => (cErr # NoError /\ NoObjectReturned)

\* a well-formed header announcing two objects, the second cut short
C15_Witness ==
    /\ cOp = "ReadDeviceIdentificationRegular"
    /\ Accepted
    /\ DecodedPdu.Data = <<14, 2, 1, 0, 0, 2, 0, 1, 65, 7, 2, 66>>
    /\ cErr = ErrUnexpectedEOF
    /\ NoObjectReturned

Scenario5Data == <<14, 1, 1, 0, 0, 3, 0, 5, 86, 101, 110, 100, 114, 1, 2, 80, 67,
                   2, 3, 49, 46, 48>>

\* The objects of a response the operation accepted, by id
ParsedObjects == DeviceIdentificationParse(DecodedPdu.Data, DeviceIdCode).objs

FieldOf(id) == IF id \in DOMAIN ParsedObjects THEN ParsedObjects[id] ELSE Nil

\* C16: ids 0-2 fill the Basic record, ids 3-6 the Regular record, every other
\* id the extended map and nothing else does, so that the extended map holds
\* no id <= 6; the response 0E 01 01 00 00 03 00 05 "Vendr" 01 02 "PC" 02 03
\* "1.0" gives Basic{"Vendr", "PC", "1.0"}.
C16_ObjectsPartitioned ==
    (cOp \in DeviceIdOps /\ cErr = NoError)
        => LET basic == IF cOp = "ReadDeviceIdentificationBasic" THEN cRes
                        ELSE IF cOp = "ReadDeviceIdentificationRegular" THEN cRes.Basic
                        ELSE cRes.Regular.Basic
               regular == IF cOp = "ReadDeviceIdentificationRegular" THEN cRes
                          ELSE cRes.Regular
           IN  /\ basic = [VendorName |-> FieldOf(0), ProductCode |-> FieldOf(1),
                           MajorMinorVersion |-> FieldOf(2)]
               /\ cOp # "ReadDeviceIdentificationBasic"
                     => /\ regular.VendorURL = FieldOf(3)
                        /\ regular.ProductName = FieldOf(4)
                        /\ regular.ModelName = FieldOf(5)
                        /\ regular.UserApplicationName = FieldOf(6)
               /\ cOp = "ReadDeviceIdentificationExtended"
                     => /\ DOMAIN cRes.ExtendedObjects
                              = {id \in DOMAIN ParsedObjects : id > 6}
                        /\ \A id \in DOMAIN cRes.ExtendedObjects :
                              id > 6 /\ cRes.ExtendedObjects[id] = ParsedObjects[id]
               /\ (cOp = "ReadDeviceIdentificationBasic"
                      /\ DecodedPdu.Data = Scenario5Data)
                     => cRes = [VendorName |-> <<86, 101, 110, 100, 114>>,
                                ProductCode |-> <<80, 67>>,
                                MajorMinorVersion |-> <<49, 46, 48>>]

\* an accepted extended response with one object below and one above id 6
C16_Witness ==
    /\ cOp = "ReadDeviceIdentificationExtended"
    /\ cErr = NoError
    /\ DecodedPdu.Data = <<14, 3, 1, 0, 0, 2, 0, 1, 65, 7, 2, 66, 67>>
    /\ cRes.Regular.Basic.VendorName = <<65>>
    /\ DOMAIN cRes.ExtendedObjects = {7}


\* What the collaborators returned to the call whose every stage succeeded
SendEnv ==
    [failAt |-> "none", errId |-> "e1", aduReq |-> cTrace[1].aduReq,
     aduResp |-> cTrace[2].aduResp, pdu |-> DecodedPdu]

\* What send returned to the operation
SendOutcome == send(cReq, SendEnv)

EmptyResponse == Errorf("modbus: response data is empty")

\* The 0-based offsets of the response data d an operation reads by index once
\* send has returned it: Data[0] of the byte-count check, the words of a
\* fixed-length echo after the length check, the two words of the FIFO header
\* after the len >= 4 check.
IndexedReads(op, d) ==
    IF op \in ReadStyleOps THEN {0}
    ELSE IF op = "MaskWriteRegister" THEN (IF Len(d) = 6 THEN 0..5 ELSE {})
    ELSE IF op \in EchoStyleOps THEN (IF Len(d) = 4 THEN 0..3 ELSE {})
    ELSE IF op = "ReadFIFOQueue" THEN (IF Len(d) < 4 THEN {} ELSE 0..3)
    ELSE {}

\* C22: a response PDU that send returns without error has the request's
\* function code and non-empty data; a response with the matching function code
\* and empty data fails with "response data is empty"; so every read of the
\* response data by index is in range.
C22_ReturnedResponseNonEmpty ==
    /\ Delivered =>
          /\ SendOutcome.err = NoError <=> Accepted
          /\ SendOutcome.err = NoError =>
                /\ SendOutcome.response = DecodedPdu
                /\ IndexedReads(cOp, DecodedPdu.Data) \subseteq 0..(Len(DecodedPdu.Data) - 1)
          /\ (DecodedPdu.FunctionCode = cReq.FunctionCode /\ Len(DecodedPdu.Data) = 0)
                => (cErr = EmptyResponse /\ SendOutcome.err = EmptyResponse)
    /\ (cReq # NoPdu /\ cErr = NoError) => Accepted

\* Decode handed ReadCoils a response with its function code and no data
C22_Witness ==
    /\ cOp = "ReadCoils"
    /\ Delivered
    /\ DecodedPdu = ProtocolDataUnit(FuncCodeReadCoils, <<>>)
    /\ cErr = EmptyResponse


\* C23: every response whose function code differs from the request's, an
\* exception code (request_fc | 0x80) or any other, makes send report a
\* ModbusError whose exception code is the first data byte, 0 when there is
\* none: the function code is checked before the data is found empty.
C23_MismatchIsModbusError ==
    (Delivered /\ DecodedPdu.FunctionCode # cReq.FunctionCode) =>
        /\ cErr.kind = "ModbusError"
        /\ cErr.ec = (IF Len(DecodedPdu.Data) > 0 THEN DecodedPdu.Data[1] ELSE 0)
        /\ cErr # EmptyResponse
        /\ SendOutcome.err = cErr

\* an exception response without data came back to WriteSingleRegister
C23_Witness ==
    /\ cOp = "WriteSingleRegister"
    /\ Delivered
    /\ DecodedPdu = ProtocolDataUnit(ExceptionFc(FuncCodeWriteSingleRegister), <<>>)
    /\ cErr.kind = "ModbusError"
    /\ cErr.ec = 0


\* The operations that return (results []byte, err error)
ByteResultOps == ReadStyleOps \cup EchoStyleOps \cup {"ReadFIFOQueue"}

\* C27: an operation that returns a non-nil error returns nil results, whatever
\* step failed.
C27_ErrorMeansNoResults ==
    (cOp \in ByteResultOps /\ cErr # NoError) => cRes = Nil


\* C28: the conformity-level byte never makes readDeviceIdentification fail:
\* respConformityLevel & 0x01 > 3 is false for each of the 256 values, and the
\* parse of a response gives the same objects and the same error whatever
\* that byte is.
C28_ConformityLevelIgnored ==
    (cOp \in DeviceIdOps /\ Accepted /\ Len(DecodedPdu.Data) >= 3) =>
        /\ cErr # Errorf("modbus: invalid response conformity level")
        /\ \A b \in 0..255 :
              /\ ~(LowBit(b) > 3)
              /\ DeviceIdentificationParse(WithByte(DecodedPdu.Data, 3, b), DeviceIdCode)
                    = DeviceIdentificationParse(DecodedPdu.Data, DeviceIdCode)

\* a response with the conformity level 0x82 was parsed to the end
C28_Witness ==
    /\ cOp = "ReadDeviceIdentificationRegular"
    /\ Accepted
    /\ Len(DecodedPdu.Data) > 6
    /\ DecodedPdu.Data[3] = 130
    /\ cErr = NoError
    /\ cRes.Basic.VendorName = <<65>>


SuffixOps == {"WriteMultipleCoils", "WriteMultipleRegisters", "ReadWriteMultipleRegisters"}

\* The 16-bit arguments an operation puts in front of its request data, and
\* the bytes to write (nothing for an operation without a suffix)
RequestWords ==
    IF cOp = "ReadWriteMultipleRegisters" THEN SubSeq(cArgs, 1, 4)
    ELSE IF cOp = "MaskWriteRegister" THEN SubSeq(cArgs, 1, 3)
    ELSE IF cOp = "ReadFIFOQueue" THEN SubSeq(cArgs, 1, 1)
    ELSE SubSeq(cArgs, 1, 2)

RequestSuffix == cArgs[Len(RequestWords) + 1]

\* C29: dataBlock(v1..vn) is 2n bytes, each value big-endian in order;
\* dataBlockSuffix adds one byte len(suffix) mod 256 and the suffix, so the
\* byte count the three write operations send is len(value) mod 256 whatever
\* the quantity is.
C29_DataBlockLayout ==
    (cOp \in ReadStyleOps \cup EchoStyleOps \cup {"ReadFIFOQueue"} /\ cReq # NoPdu) =>
        LET d == cReq.Data
            n == Len(RequestWords)
        IN  /\ Len(d) >= 2 * n
            /\ \A i \in 1..n :
                  /\ d[2 * i - 1] * 256 + d[2 * i] = RequestWords[i]
                  /\ d[2 * i - 1] \in 0..255
                  /\ d[2 * i] \in 0..255
            /\ IF cOp \in SuffixOps
               THEN /\ Len(d) = 2 * n + 1 + Len(RequestSuffix)
                    /\ d[2 * n + 1] = Len(RequestSuffix) % 256
                    /\ SubSeq(d, 2 * n + 2, Len(d)) = RequestSuffix
               ELSE Len(d) = 2 * n

\* 257 bytes to write with a quantity of 123: the byte count sent is 1
C29_Witness ==
    /\ cOp = "WriteMultipleRegisters"
    /\ cArgs[2] = 123
    /\ Len(cArgs[3]) = 257
    /\ cReq.Data[5] = 1
    /\ Len(cReq.Data) = 262


(***************************************************************************)
(* The TLS transporter (tlsclient.go)                                      *)
(*                                                                         *)
(* Threads call Send, Connect and Close on one tlsTransporter.  The        *)
(* connection is a byte stream: the server answers the requests written    *)
(* to it in order, each answer a 7-byte MBAP header whose length field is  *)
(* the server's choice, followed by length - 1 bytes; the answer arrives   *)
(* piece by piece.  The stream is kept as runs of bytes, each run knowing  *)
(* the request it answers.  Time is a clock of ticks.                      *)
(***************************************************************************)
tcpHeaderSize == 7
tcpMaxLength  == 260

MaxReq     == 2    \* calls of Send in one behaviour
MaxDials   == 2    \* connections the network lets the transporter open
MaxPending == 1    \* idle-timer callbacks waiting to run
IdleTicks  == 2    \* the idle timeout, when enabled, in clock ticks

\* Two threads share the transporter.
Threads == {1, 2}
Free    == 0
NoConn  == 0
IdleCap == IdleTicks

\* Length fields the server (or stray bytes read as a header) may carry
LenVals == {0, 1, 254, 255}

NoLoc == [req |-> 0, dialed |-> FALSE, length |-> 0, origin |-> {}, exact |-> FALSE]
NoAdu == [len |-> 0, origin |-> {}, exact |-> FALSE]

Run(req, kind, n, L) == [req |-> req, kind |-> kind, n |-> n, L |-> L]

\* The bytes of one answer: the header and, when the length field announces
\* any, the length - 1 bytes that follow the unit id.
Answer(req, L) ==
    IF L > 1 THEN <<Run(req, "hdr", tcpHeaderSize, L), Run(req, "body", L - 1, 0)>>
    ELSE <<Run(req, "hdr", tcpHeaderSize, L)>>

RECURSIVE Avail(_)
Avail(buf) == IF buf = <<>> THEN 0 ELSE Head(buf).n + Avail(Tail(buf))

\* The first k bytes of buf (k <= Avail(buf)) and what is left of it; a run
\* cut in two is no longer a whole header or body.
RECURSIVE Take(_, _)
Take(buf, k) ==
    IF k = 0 \/ buf = <<>> THEN [taken |-> <<>>, rest |-> buf]
    ELSE IF Head(buf).n <= k
         THEN LET more == Take(Tail(buf), k - Head(buf).n)
              IN  [taken |-> <<Head(buf)>> \o more.taken, rest |-> more.rest]
         ELSE [taken |-> <<Run(Head(buf).req, "frag", k, 0)>>,
               rest  |-> <<Run(Head(buf).req, "frag", Head(buf).n - k, 0)>> \o Tail(buf)]

Min(a, b) == IF a <= b THEN a ELSE b

Origins(runs) == {runs[i].req : i \in 1..Len(runs)}

\* The taken bytes are one whole header, as the server wrote it.
IsHeader(runs) == Len(runs) = 1 /\ runs[1].kind = "hdr"

(***************************************************************************)
(* The mutex, the connection, the timer                                    *)
(***************************************************************************)
\* mb.mu.Lock() taken without waiting for the holder
LockUnguarded(t) == mu' = t

\* mb.mu.Lock() by thread t
Lock(t) == mu = Free /\ mu' = t

\* A new connection: nothing is queued on it.
Dial ==
    /\ conn' = dials + 1
    /\ dials' = dials + 1
    /\ srvQ' = <<>>
    /\ wire' = <<>>
    /\ rbuf' = <<>>

\* connect dials when mb.conn is nil and the dial succeeds (ok); it returns
\* an error, with nothing changed, when the dial fails.
connectFails(ok) == conn = NoConn /\ ~ok

\* connect dialing whether or not a connection is held
connectAlwaysDials(ok) ==
    IF ok THEN Dial
    ELSE UNCHANGED <<conn, dials, srvQ, wire, rbuf>>

connect(ok) ==
    IF conn = NoConn /\ ok THEN Dial
    ELSE UNCHANGED <<conn, dials, srvQ, wire, rbuf>>

\* Whether a dial may succeed: the network opens at most MaxDials connections.
DialOutcomes == IF conn = NoConn /\ dials < MaxDials THEN {TRUE, FALSE}
                ELSE IF conn = NoConn THEN {FALSE} ELSE {TRUE}

\* startCloseTimer arming the timer only when none exists yet
startCloseTimerNoReset ==
    IF IdleTimeout <= 0 \/ closeTimer # "nil"
    THEN UNCHANGED <<closeTimer, timerActive, timerLeft>>
    ELSE /\ closeTimer' = "set"
         /\ timerActive' = TRUE
         /\ timerLeft' = IdleTimeout

\* startCloseTimer: time.AfterFunc for the first call, Reset afterwards
startCloseTimer ==
    IF IdleTimeout <= 0 THEN UNCHANGED <<closeTimer, timerActive, timerLeft>>
    ELSE /\ closeTimer' = "set"
         /\ timerActive' = TRUE
         /\ timerLeft' = IdleTimeout

\* close closes current connection and forgets it; what was queued on it is lost.
close ==
    IF conn # NoConn
    THEN /\ conn' = NoConn
         /\ srvQ' = <<>>
         /\ wire' = <<>>
         /\ rbuf' = <<>>
    ELSE UNCHANGED <<conn, srvQ, wire, rbuf>>

(***************************************************************************)
(* Send, step by step; every step but the first runs under the mutex       *)
(***************************************************************************)
\* The errors of the channel a Send may return: a failed dial, SetDeadline,
\* Write or read (a passed deadline is an error of the read or the write)
TransportErrors == {"connect", "setdeadline", "write", "read"}

\* A call returns to its caller (Send also runs its deferred Unlock).
Returned(op, t, err, adu) ==
    [op |-> op, req |-> loc[t].req, err |-> err, adu |-> adu]

SendReturns(t, err, adu) ==
    /\ pc' = [pc EXCEPT ![t] = "idle"]
    /\ mu' = Free
    /\ loc' = [loc EXCEPT ![t] = NoLoc]
    /\ lastRet' = Returned("Send", t, err, adu)

SendLock(t) ==
    /\ pc[t] = "idle"
    /\ reqCount < MaxReq
    /\ Lock(t)
    /\ reqCount' = reqCount + 1
    /\ pc' = [pc EXCEPT ![t] = "connect"]
    /\ loc' = [loc EXCEPT ![t] = [NoLoc EXCEPT !.req = reqCount + 1]]
    /\ UNCHANGED <<clientVars, IdleTimeout, conn, closeTimer, timerActive, timerLeft, idle, pending,
                   dials, srvQ, wire, rbuf, lastRet>>

\* Send stamping lastActivity and starting the timer before it looks at the
\* error of connect
SendConnectFailsAfterStamp(t) ==
    /\ pc[t] = "connect"
    /\ FALSE \in DialOutcomes
    /\ connectFails(FALSE)
    /\ connect(FALSE)
    /\ idle' = 0
    /\ startCloseTimer
    /\ SendReturns(t, "connect", NoAdu)
    /\ UNCHANGED <<clientVars, IdleTimeout, pending, reqCount>>

\* connect failed: Send returns the error at once
SendConnectFails(t) ==
    /\ pc[t] = "connect"
    /\ FALSE \in DialOutcomes
    /\ connectFails(FALSE)
    /\ connect(FALSE)
    /\ SendReturns(t, "connect", NoAdu)
    /\ UNCHANGED <<clientVars, IdleTimeout, closeTimer, timerActive, timerLeft, idle, pending,
                   reqCount>>

\* connected: stamp lastActivity, start the close timer, set the deadline
\* (SetDeadline may fail, and Send then returns its error)
SendConnected(t) ==
    /\ pc[t] = "connect"
    /\ TRUE \in DialOutcomes
    /\ connect(TRUE)
    /\ idle' = 0
    /\ startCloseTimer
    /\ \/ /\ pc' = [pc EXCEPT ![t] = "write"]
          /\ loc' = [loc EXCEPT ![t].dialed = (conn = NoConn)]
          /\ UNCHANGED <<mu, lastRet>>
       \/ SendReturns(t, "setdeadline", NoAdu)
    /\ UNCHANGED <<clientVars, IdleTimeout, pending, reqCount>>

\* mb.conn.Write(aduRequest): the request reaches the server, or Write fails
SendWrite(t) ==
    /\ pc[t] = "write"
    /\ \/ /\ srvQ' = Append(srvQ, loc[t].req)
          /\ pc' = [pc EXCEPT ![t] = "readHeader"]
          /\ UNCHANGED <<mu, loc, lastRet>>
       \/ /\ SendReturns(t, "write", NoAdu)
          /\ UNCHANGED srvQ
    /\ UNCHANGED <<clientVars, IdleTimeout, conn, closeTimer, timerActive, timerLeft, idle, pending,
                   dials, reqCount, wire, rbuf>>

\* flush: one Read with the read deadline set to now.  It takes what the
\* connection hands over at once, at most len(b) = tcpMaxLength bytes, possibly
\* nothing (the deadline has passed); whole runs here.  Its error is dropped.
flush(buf) ==
    \E j \in 0..Len(buf) :
        /\ Avail(SubSeq(buf, 1, j)) <= tcpMaxLength
        /\ rbuf' = SubSeq(buf, j + 1, Len(buf))

\* The length check of the header accepting a length of tcpMaxLength - 5
LengthRejectedLoose(length) ==
    length <= 0 \/ length > (tcpMaxLength - (tcpHeaderSize - 2))

\* length <= 0, or length > tcpMaxLength - (tcpHeaderSize - 1)
LengthRejected(length) ==
    length <= 0 \/ length > (tcpMaxLength - (tcpHeaderSize - 1))

\* io.ReadFull of the header succeeded: the length field is read from it
\* (seven bytes that are not a header the server wrote carry any value)
SendReadHeader(t) ==
    /\ pc[t] = "readHeader"
    /\ Avail(rbuf) >= tcpHeaderSize
    /\ LET tk == Take(rbuf, tcpHeaderSize)
       IN  \E length \in (IF IsHeader(tk.taken) THEN {tk.taken[1].L} ELSE LenVals) :
             IF LengthRejected(length)
             THEN /\ flush(tk.rest)
                  /\ SendReturns(t, "length", NoAdu)
             ELSE /\ rbuf' = tk.rest
                  /\ pc' = [pc EXCEPT ![t] = "readBody"]
                  /\ loc' = [loc EXCEPT ![t].length = length,
                                        ![t].origin = Origins(tk.taken),
                                        ![t].exact = IsHeader(tk.taken)]
                  /\ UNCHANGED <<mu, lastRet>>
    /\ UNCHANGED <<clientVars, IdleTimeout, conn, closeTimer, timerActive, timerLeft, idle, pending,
                   dials, reqCount, srvQ, wire>>

\* A failed read after which Send closes the connection
ReadFailsClosing(t, n) ==
    /\ SendReturns(t, "read", NoAdu)
    /\ close
    /\ UNCHANGED <<clientVars, IdleTimeout, closeTimer, timerActive, timerLeft, idle, pending,
                   dials, reqCount>>

\* A read of n bytes fails (the deadline passed, or the connection broke):
\* bytes that were there when fewer than n had arrived may have been consumed.
ReadFails(t, n) ==
    /\ SendReturns(t, "read", NoAdu)
    /\ \/ UNCHANGED rbuf
       \/ /\ Avail(rbuf) < n
          /\ rbuf # <<>>
          /\ rbuf' = <<>>
    /\ UNCHANGED <<clientVars, IdleTimeout, conn, closeTimer, timerActive, timerLeft, idle, pending,
                   dials, reqCount, srvQ, wire>>

SendReadHeaderFails(t) ==
    /\ pc[t] = "readHeader"
    /\ ReadFails(t, tcpHeaderSize)

\* The bytes Send reads after the header: data[tcpHeaderSize:length] with
\* length += tcpHeaderSize - 1
BodySize(length) == (length + tcpHeaderSize - 1) - tcpHeaderSize

\* io.ReadFull of the rest succeeded: Send returns data[:length]
SendReadBody(t) ==
    /\ pc[t] = "readBody"
    /\ Avail(rbuf) >= BodySize(loc[t].length)
    /\ LET tk == Take(rbuf, BodySize(loc[t].length))
       IN  /\ rbuf' = tk.rest
           /\ SendReturns(t, "nil",
                  [len    |-> loc[t].length + tcpHeaderSize - 1,
                   origin |-> loc[t].origin \cup Origins(tk.taken),
                   exact  |-> /\ loc[t].exact
                              /\ \/ tk.taken = <<>>
                                 \/ Len(tk.taken) = 1 /\ tk.taken[1].kind = "body"])
    /\ UNCHANGED <<clientVars, IdleTimeout, conn, closeTimer, timerActive, timerLeft, idle, pending,
                   dials, reqCount, srvQ, wire>>

\* a read of no bytes cannot fail
SendReadBodyFails(t) ==
    /\ pc[t] = "readBody"
    /\ BodySize(loc[t].length) > 0
    /\ ReadFails(t, BodySize(loc[t].length))

(***************************************************************************)
(* Connect, Close and the idle callback, each under the mutex              *)
(***************************************************************************)
Connect(t) ==
    /\ pc[t] = "idle"
    /\ mu = Free
    /\ \E ok \in DialOutcomes :
         /\ connect(ok)
         /\ lastRet' = Returned("Connect", t, IF connectFails(ok) THEN "connect" ELSE "nil",
                                NoAdu)
    /\ UNCHANGED <<clientVars, IdleTimeout, mu, closeTimer, timerActive, timerLeft, idle, pending, pc,
                   loc, reqCount>>

\* Close returns what mb.conn.Close() returned, nil when there is no connection
Close(t) ==
    /\ pc[t] = "idle"
    /\ mu = Free
    /\ close
    /\ \E err \in (IF conn # NoConn THEN {"nil", "close"} ELSE {"nil"}) :
         lastRet' = Returned("Close", t, err, NoAdu)
    /\ UNCHANGED <<clientVars, IdleTimeout, mu, closeTimer, timerActive, timerLeft, idle, pending, pc,
                   loc, dials, reqCount>>

\* closeIdle closing whenever it runs
closeIdleBodyUnconditional == close

\* closeIdle without the test that the idle timeout is enabled
closeIdleBodyNoDisableCheck ==
    IF idle >= IdleTimeout THEN close
    ELSE UNCHANGED <<conn, srvQ, wire, rbuf>>

\* The body of closeIdle, run under the mutex
closeIdleBody ==
    IF IdleTimeout <= 0 THEN UNCHANGED <<conn, srvQ, wire, rbuf>>
    ELSE IF idle >= IdleTimeout THEN close
    ELSE UNCHANGED <<conn, srvQ, wire, rbuf>>

\* closeIdle: a callback that fired gets the mutex and runs
closeIdle ==
    /\ pending > 0
    /\ mu = Free
    /\ pending' = pending - 1
    /\ closeIdleBody
    /\ UNCHANGED <<clientVars, IdleTimeout, mu, closeTimer, timerActive, timerLeft, idle, pc, loc,
                   dials, reqCount, lastRet>>

(***************************************************************************)
(* The clock, the timer, the server                                        *)
(***************************************************************************)
\* One tick passes (a tick that changes nothing is not a step).
Tick ==
    /\ idle < IdleCap \/ (timerActive /\ timerLeft > 0)
    /\ idle' = Min(idle + 1, IdleCap)
    /\ timerLeft' = IF timerActive /\ timerLeft > 0 THEN timerLeft - 1 ELSE timerLeft
    /\ UNCHANGED <<clientVars, IdleTimeout, mu, conn, closeTimer, timerActive, pending, pc, loc, dials,
                   reqCount, srvQ, wire, rbuf, lastRet>>

\* The armed timer expires: the runtime starts closeIdle in its own goroutine.
TimerFires ==
    /\ timerActive
    /\ timerLeft = 0
    /\ pending < MaxPending
    /\ timerActive' = FALSE
    /\ pending' = pending + 1
    /\ UNCHANGED <<clientVars, IdleTimeout, mu, conn, closeTimer, timerLeft, idle, pc, loc, dials,
                   reqCount, srvQ, wire, rbuf, lastRet>>

\* The server answers the oldest request with a length field of its choice:
\* the header arrives, what follows it is still on its way.
ServerReplies ==
    /\ srvQ # <<>>
    /\ wire = <<>>
    /\ \E L \in LenVals :
         /\ rbuf' = Append(rbuf, Head(Answer(Head(srvQ), L)))
         /\ wire' = Tail(Answer(Head(srvQ), L))
    /\ srvQ' = Tail(srvQ)
    /\ UNCHANGED <<clientVars, IdleTimeout, mu, conn, closeTimer, timerActive, timerLeft, idle, pending,
                   pc, loc, dials, reqCount, lastRet>>

\* The rest of the answer arrives at the client.
Delivers ==
    /\ wire # <<>>
    /\ rbuf' = Append(rbuf, Head(wire))
    /\ wire' = Tail(wire)
    /\ UNCHANGED <<clientVars, IdleTimeout, mu, conn, closeTimer, timerActive, timerLeft, idle, pending,
                   pc, loc, dials, reqCount, srvQ, lastRet>>

(***************************************************************************)
(* Specifications                                                          *)
(***************************************************************************)
NoReturn == [op |-> "none", req |-> 0, err |-> "nil", adu |-> NoAdu]

\* A transporter as NewTLSClientHandler leaves it, with the idle timeout given
TransportStart(idleTimeout) ==
    /\ IdleTimeout = idleTimeout
    /\ mu = Free
    /\ conn = NoConn
    /\ closeTimer = "nil"
    /\ timerActive = FALSE
    /\ timerLeft = 0
    /\ idle = IdleCap
    /\ pending = 0
    /\ pc = [t \in Threads |-> "idle"]
    /\ loc = [t \in Threads |-> NoLoc]
    /\ dials = 0
    /\ reqCount = 0
    /\ srvQ = <<>>
    /\ wire = <<>>
    /\ rbuf = <<>>
    /\ lastRet = NoReturn

Init ==
    /\ ClientInit
    /\ \E idleTimeout \in {0, IdleTicks} : TransportStart(idleTimeout)

Next ==
    \/ \E t \in Threads : SendLock(t)
    \/ \E t \in Threads : SendConnectFails(t)
    \/ \E t \in Threads : SendConnected(t)
    \/ \E t \in Threads : SendWrite(t)
    \/ \E t \in Threads : SendReadHeader(t)
    \/ \E t \in Threads : SendReadHeaderFails(t)
    \/ \E t \in Threads : SendReadBody(t)
    \/ \E t \in Threads : SendReadBodyFails(t)
    \/ \E t \in Threads : Connect(t)
    \/ \E t \in Threads : Close(t)
    \/ closeIdle
    \/ Tick
    \/ TimerFires
    \/ ServerReplies
    \/ Delivers

\* Concurrent callers of one transporter, the server and the clock
Spec == Init /\ [][Next]_vars

\* The dispatcher alone, over a transporter nobody else uses
ClientStart == ClientInit /\ TransportStart(IdleTicks)

ClientSpec == ClientStart /\ [][ClientNext]_vars

\* Spec with time that passes, a timer that fires when it expires and a
\* callback goroutine that runs once the mutex is free
FairSpec ==
    /\ Spec
    /\ WF_vars(Tick)
    /\ WF_vars(TimerFires)
    /\ WF_vars(closeIdle)

\* The owner of the handler sets its exported IdleTimeout field to zero while
\* no call is running.
DisableIdleTimeout ==
    /\ IdleTimeout > 0
    /\ mu = Free
    /\ \A t \in Threads : pc[t] = "idle"
    /\ IdleTimeout' = 0
    /\ UNCHANGED <<clientVars, mu, conn, closeTimer, timerActive, timerLeft, idle, pending,
                   pc, loc, dials, reqCount, srvQ, wire, rbuf, lastRet>>

ReconfigNext ==
    \/ Next
    \/ DisableIdleTimeout

\* Spec with an owner that may disable the idle timeout at run time
ReconfigSpec == Init /\ [][ReconfigNext]_vars

(***************************************************************************)
(* Properties of the transporter                                           *)
(***************************************************************************)
InSend(t) == pc[t] # "idle"
Quiet == \A t \in Threads : ~InSend(t)

\* C3: concurrent Sends on one transporter do not interleave: at most one
\* thread is between the start of its Send and its return (so between its
\* write and the end of its reads), and that thread holds the mutex.
C3_OneRequestInFlight ==
    /\ \A t, u \in Threads : InSend(t) /\ InSend(u) => t = u
    /\ \A t \in Threads : InSend(t) => mu = t

\* a second Send was started and waits for its answer, the other thread is out
C3_Witness ==
    \E t \in Threads :
        /\ pc[t] = "readHeader"
        /\ mu = t
        /\ loc[t].req >= 2
        /\ lastRet.op = "Send"
        /\ lastRet.err = "nil"
        /\ \A u \in Threads \ {t} : pc[u] = "idle"

\* C4: the ADU a successful Send returns is the server's answer to the
\* request of that same Send, never (a piece of) the answer to an earlier one.
C4_ResponseAnswersItsRequest ==
    (lastRet.op = "Send" /\ lastRet.err = "nil")
        => (lastRet.adu.exact /\ lastRet.adu.origin = {lastRet.req})

\* C5: after a Send failed with an error of the channel, the next Send dials
\* a new connection before it writes its request.
C5_NextSendRedials ==
    \A t \in Threads :
        (/\ pc[t] \in {"write", "readHeader", "readBody"}
         /\ lastRet.op = "Send"
         /\ lastRet.err \in {"connect", "write", "read"})
            => loc[t].dialed

\* C6: with IdleTimeout > 0, a connection left open by a Send is closed by the
\* idle callback unless another Send starts; the callback closes only when
\* IdleTimeout has elapsed since the last activity; and a Send that finds no
\* connection dials one before it writes.
C6_Open  == IdleTimeout > 0 /\ lastRet.op = "Send" /\ conn # NoConn /\ Quiet
C6_Done  == conn = NoConn \/ ~Quiet

C6_ClosedByCallback == pending' < pending /\ conn # NoConn /\ conn' = NoConn

C6_SendRedials ==
    \A t \in Threads :
        (pc[t] = "connect" /\ pc'[t] = "write" /\ conn = NoConn)
            => (conn' = dials + 1 /\ dials' = dials + 1)

C6_IdleClose ==
    /\ C6_Open ~> C6_Done
    /\ [][C6_ClosedByCallback => (IdleTimeout > 0 /\ idle >= IdleTimeout)]_vars
    /\ [][C6_SendRedials]_vars

\* a Send succeeded, nobody called Close, the connection was closed all the
\* same, and the next Send has dialed the second connection
C6_Witness ==
    \E t \in Threads :
        /\ IdleTimeout > 0
        /\ lastRet.op = "Send"
        /\ lastRet.err = "nil"
        /\ pc[t] = "write"
        /\ loc[t].dialed
        /\ conn = 2

\* buf is what is left of whole after a read took some of its first runs
IsSuffix(buf, whole) ==
    \E j \in 0..Len(whole) : buf = SubSeq(whole, j + 1, Len(whole))

\* The header read of thread t went on to the body
C17_HeaderAccepted(t) ==
    (pc[t] = "readHeader" /\ pc'[t] = "readBody")
        => /\ Avail(rbuf) - Avail(rbuf') = 7
           /\ loc'[t].length \in 1..254
           /\ IsHeader(Take(rbuf, 7).taken) => loc'[t].length = rbuf[1].L

\* The header read of thread t ended Send with the length error
C17_HeaderRejected(t) ==
    (pc[t] = "readHeader" /\ pc'[t] = "idle" /\ lastRet'.err = "length")
        => /\ Avail(rbuf) >= 7
           /\ IsHeader(Take(rbuf, 7).taken) => rbuf[1].L \notin 1..254
           /\ IsSuffix(rbuf', Take(rbuf, 7).rest)
           /\ lastRet'.adu = NoAdu

\* The body read of thread t ended Send with an ADU
C17_BodyRead(t) ==
    (pc[t] = "readBody" /\ pc'[t] = "idle" /\ lastRet'.err = "nil")
        => /\ Avail(rbuf) - Avail(rbuf') = loc[t].length - 1
           /\ lastRet'.adu.len = 6 + loc[t].length
           /\ lastRet'.adu.len <= 260

FieldWritten ==
    \/ conn' # conn
    \/ closeTimer' # closeTimer
    \/ timerActive' /\ (~timerActive \/ timerLeft' > timerLeft)
    \/ idle' < idle

\* C18: mb.conn, mb.lastActivity and mb.closeTimer are touched only under the
\* mutex: a Send takes the free mutex before anything else, every later step
\* of it is made by the holder, and it releases the mutex when it returns;
\* Connect, Close and closeIdle run from Lock to Unlock while no Send holds it.
C18_FieldsUnderMutex ==
    [][/\ \A t \in Threads :
            /\ (pc[t] = "idle" /\ pc'[t] # "idle")
                  => (mu = Free /\ mu' = t /\ ~FieldWritten)
            /\ (pc[t] # "idle" /\ pc'[t] # pc[t]) => mu = t
            /\ (pc[t] # "idle" /\ pc'[t] # "idle") => mu' = t
            /\ (pc[t] # "idle" /\ pc'[t] = "idle") => mu' = Free
       /\ FieldWritten
            => \/ \E t \in Threads : mu = t /\ pc[t] # "idle" /\ pc'[t] # pc[t]
               \/ mu = Free /\ mu' = Free /\ pc' = pc]_vars

\* the callback closed the connection a successful Send had left open
C18_Witness ==
    /\ IdleTimeout > 0
    /\ lastRet.op = "Send"
    /\ lastRet.err = "nil"
    /\ conn = NoConn
    /\ dials = 1
    /\ mu = Free
    /\ Quiet

\* C19: while IdleTimeout <= 0 no step arms or resets the timer, and a closed
\* connection was closed by Close and not by the callback.
C19_DisabledTimerNeverCloses ==
    [][(IdleTimeout <= 0 /\ IdleTimeout' <= 0)
          => /\ closeTimer' = closeTimer
             /\ timerActive' => (timerActive /\ timerLeft' <= timerLeft)
             /\ (conn # NoConn /\ conn' = NoConn)
                   => (lastRet'.op = "Close" /\ pending' = pending)]_vars

\* the timer a Send armed fired after the timeout was disabled, the callback
\* ran, and the connection is still open
C19_Witness ==
    /\ IdleTimeout = 0
    /\ closeTimer = "set"
    /\ ~timerActive
    /\ pending = 0
    /\ lastRet.op = "Send"
    /\ conn # NoConn

\* C20: with IdleTimeout > 0 an open connection on which no Send runs is
\* closed in the end, however it was opened.
C20_EveryOpenConnectionCloses ==
    (IdleTimeout > 0 /\ conn # NoConn /\ Quiet) ~> (conn = NoConn \/ ~Quiet)

\* The idle callback runs in this step.
CallbackRuns == pending' < pending

\* A Send stamped lastActivity and reset the timer after the waiting callback
\* was started by the timer.
StampedSinceFired == pending > 0 /\ timerActive

\* The callback closes only with the mutex, with no Send between its Lock and
\* its return, and no step made while a Send is in flight loses the connection.
C21_ClosesUnderMutexOnly ==
    /\ (CallbackRuns /\ conn # NoConn /\ conn' = NoConn)
          => (mu = Free /\ mu' = Free /\ Quiet /\ IdleTimeout > 0 /\ idle >= IdleTimeout)
    /\ (~Quiet /\ conn # NoConn) => conn' = conn

\* C21 as stated: the callback closes only when now - lastActivity >=
\* IdleTimeout and only under the mutex, never while a Send is in flight, and a
\* callback that runs after a more recent Send stamped lastActivity leaves the
\* connection open.
C21_CallbackAfterSendLeavesOpen ==
    [][/\ C21_ClosesUnderMutexOnly
       /\ (CallbackRuns /\ StampedSinceFired) => conn' = conn]_vars

\* C21 amended: the callback closes only when now - lastActivity >= IdleTimeout
\* and only under the mutex, never while a Send is in flight; a callback that
\* runs after a more recent Send stamped lastActivity leaves the connection
\* open when less than IdleTimeout has passed since that stamp, and closes it
\* otherwise.
C21_CallbackAfterSendChecksIdle ==
    [][/\ C21_ClosesUnderMutexOnly
       /\ (CallbackRuns /\ StampedSinceFired /\ idle < IdleTimeout) => conn' = conn
       /\ (CallbackRuns /\ StampedSinceFired /\ idle >= IdleTimeout) => conn' = NoConn]_vars

\* the callback the timer started is about to run with the mutex free, after a
\* later Send stamped lastActivity and returned, less than IdleTimeout ago
C21_Witness ==
    /\ StampedSinceFired
    /\ mu = Free
    /\ Quiet
    /\ conn # NoConn
    /\ lastRet.op = "Send"
    /\ lastRet.req = 2
    /\ idle < IdleTimeout

\* A thread is past connect in its Send: it writes to or reads from mb.conn.
UsesChannel(t) == pc[t] \in {"write", "readHeader", "readBody"}

\* A connection is dialed in this step, and the channel held is closed.
Dialed == dials' # dials
ChannelClosed == conn # NoConn /\ conn' # conn

\* The connection held, if any, is the last one dialed, and a Send past its
\* connect has one.
C24_HeldIsLastDialed ==
    /\ conn = NoConn \/ conn = dials
    /\ \A t \in Threads : UsesChannel(t) => conn # NoConn

\* C24: a dial happens only with no connection held, by the holder of the mutex
\* in Send or by Connect, and the new connection is the one held; the channel
\* is closed only when one is held, by Close or the idle callback, and is
\* forgotten; Close with no connection changes nothing and returns nil.  So no
\* connection is dialed while another is held, none is closed twice, and Send
\* never uses an absent channel.
C24_TwoStateConnection ==
    [][/\ C24_HeldIsLastDialed
       /\ Dialed =>
             /\ conn = NoConn
             /\ dials' = dials + 1
             /\ conn' = dials'
             /\ \/ \E t \in Threads : mu = t /\ pc[t] = "connect" /\ pc'[t] # "connect"
                \/ mu = Free /\ lastRet'.op = "Connect" /\ lastRet'.err = "nil"
       /\ ChannelClosed =>
             /\ conn' = NoConn
             /\ mu = Free /\ mu' = Free /\ Quiet
             /\ lastRet'.op = "Close" \/ CallbackRuns
       /\ (conn = NoConn /\ lastRet' # lastRet /\ lastRet'.op = "Close")
             => (lastRet'.err = "nil" /\ conn' = NoConn /\ dials' = dials)
       /\ (conn' # NoConn /\ ~Dialed) => conn' = conn]_vars

\* two Sends ran, the second connection was dialed and is closed, and the last
\* call, a Close, returned nil
C24_Witness ==
    /\ dials = 2
    /\ conn = NoConn
    /\ lastRet.op = "Close"
    /\ lastRet.err = "nil"
    /\ reqCount = 2

\* Send returns one of its errors after connect succeeded.
FailsAfterConnect(t) ==
    /\ InSend(t)
    /\ pc'[t] = "idle"
    /\ lastRet'.err \in {"setdeadline", "write", "read", "length"}

\* C25: no step of a Send closes or forgets the connection: a Send that fails
\* in SetDeadline, in the write, in the header read, in the length check or in
\* the body read returns with the connection still held, and a Send that finds
\* a connection held goes on with it and dials nothing.
C25_SendKeepsChannel ==
    [][\A t \in Threads :
          /\ (InSend(t) /\ conn # NoConn) => conn' = conn
          /\ FailsAfterConnect(t) => (conn' # NoConn /\ conn' = dials')
          /\ (pc[t] = "connect" /\ conn # NoConn)
                => (conn' = conn /\ dials' = dials /\ ~loc'[t].dialed)]_vars

\* a Send failed in a read, and the next Send is about to write to the
\* connection the failed one used
C25_Witness ==
    \E t \in Threads :
        /\ pc[t] = "write"
        /\ loc[t].req = 2
        /\ ~loc[t].dialed
        /\ conn = 1
        /\ dials = 1
        /\ lastRet.op = "Send"
        /\ lastRet.err = "read"

\* Send returns the error of connect.
DialFailsInSend(t) ==
    /\ pc[t] = "connect"
    /\ pc'[t] = "idle"
    /\ lastRet'.err = "connect"

\* C26: a Send whose dial fails returns that error and leaves the transporter
\* as it found it: no connection, nothing written, lastActivity not stamped,
\* the timer neither armed nor reset; only the mutex is released.
C26_FailedDialChangesNothing ==
    [][\A t \in Threads :
          DialFailsInSend(t) =>
              /\ conn = NoConn /\ conn' = NoConn
              /\ dials' = dials
              /\ srvQ' = srvQ /\ wire' = wire /\ rbuf' = rbuf
              /\ idle' = idle
              /\ closeTimer' = closeTimer
              /\ timerActive' = timerActive
              /\ timerLeft' = timerLeft
              /\ pending' = pending
              /\ lastRet'.op = "Send" /\ lastRet'.adu = NoAdu
              /\ mu = t /\ mu' = Free]_vars

\* the first Send could not dial: no connection, no timer, although the idle
\* timeout is enabled
C26_Witness ==
    /\ IdleTimeout > 0
    /\ lastRet.op = "Send"
    /\ lastRet.err = "connect"
    /\ lastRet.req = 1
    /\ reqCount = 1
    /\ conn = NoConn
    /\ closeTimer = "nil"
    /\ ~timerActive
    /\ Quiet


=============================================================================
